---- MODULE Spec2Model ----
(***************************************************************************)
(* A model of the structured-error library (package errors).               *)
(*                                                                         *)
(* Go strings are sequences of tokens.  A token is one character, or an    *)
(* indivisible run of characters that holds no space and no comma.  The    *)
(* token "xFF" is a byte that is not valid UTF-8 and "uFFFD" is the        *)
(* Unicode replacement rune.  *Error values live in a heap, so that        *)
(* pointer identity (the cause of a wrapper) is an address.                *)
(***************************************************************************)
EXTENDS Integers, Sequences, FiniteSets, TLC

VARIABLES heap, DefaultCode, GlobalError, call

vars == <<heap, DefaultCode, GlobalError, call>>

\* The most *Error values a run constructs; a decoder may fill one fresh
\* instance more.
MaxHeap == 2

-----------------------------------------------------------------------------
\* Application error codes.
CONFLICT == <<"conflict">>
INTERNAL == <<"internal">>
INVALID == <<"invalid">>
NOTFOUND == <<"not_found">>
UNKNOWN == <<"unknown">>
MAXIMUMATTEMPTS == <<"maximum_attempts">>
EXPIRED == <<"expired">>

\* net/http status codes used by HTTPStatusCode.
StatusInternalServerError == 500
StatusConflict == 409
StatusBadRequest == 400
StatusNotFound == 404
StatusPaymentRequired == 402
StatusTooManyRequests == 429

\* The initial value of GlobalError.
InitialGlobalError == <<"An error has occurred.">>

-----------------------------------------------------------------------------
\* Values of the interface type error (and of *Error, which has no "foreign").
NilErr == [kind |-> "nil", addr |-> 0, text |-> <<>>]
Ptr(a) == [kind |-> "ptr", addr |-> a, text |-> <<>>]
\* errors.New(text) / fmt.Errorf result: a leaf error that is not an *Error.
Foreign(t) == [kind |-> "foreign", addr |-> 0, text |-> t]

\* One captured stack frame.
Trace(i, fn, file, line) == [Index |-> i, Function |-> fn, File |-> file, Line |-> line]

\* A frame of the running goroutine's stack: function, file, line being executed.
Frame(fn, file, line) == [Function |-> fn, File |-> file, Line |-> line]

\* The Error struct; ZeroError is its zero value (a fresh instance).
ZeroError ==
    [Code |-> <<>>, Message |-> <<>>, Operation |-> <<>>, Err |-> NilErr,
     Additional |-> <<>>, Internal |-> FALSE, fileLine |-> <<>>, pcs |-> <<>>]

-----------------------------------------------------------------------------
\* strings.TrimSpace on a token string.
RECURSIVE TrimLeft(_)
TrimLeft(s) == IF s # <<>> /\ Head(s) = " " THEN TrimLeft(Tail(s)) ELSE s

RECURSIVE TrimRight(_)
TrimRight(s) ==
    IF s # <<>> /\ s[Len(s)] = " " THEN TrimRight(SubSeq(s, 1, Len(s) - 1)) ELSE s

TrimSpace(s) == TrimRight(TrimLeft(s))

\* strings.TrimSuffix(s, ",").
TrimSuffixComma(s) ==
    IF s # <<>> /\ s[Len(s)] = "," THEN SubSeq(s, 1, Len(s) - 1) ELSE s

\* strconv.Itoa.
Itoa(n) == <<ToString(n)>>

\* fmt.Sprintf(format, args...) for the verb %s: each "%s" token takes the next
\* argument, a verb with no argument left prints %!s(MISSING), and arguments left
\* over are reported after the text as %!(EXTRA ...).
RECURSIVE SprintfBody(_, _)
SprintfBody(format, args) ==
    IF format = <<>> THEN
        IF args = <<>> THEN <<>> ELSE <<"%!(EXTRA)">>
    ELSE IF Head(format) = "%s" THEN
        IF args = <<>> THEN <<"%!s(MISSING)">> \o SprintfBody(Tail(format), args)
        ELSE Head(args) \o SprintfBody(Tail(format), Tail(args))
    ELSE <<Head(format)>> \o SprintfBody(Tail(format), args)

Sprintf(format, args) == SprintfBody(format, args)

-----------------------------------------------------------------------------
\* The goroutine's stack is a sequence of frames, innermost first; every
\* frame's line is the line of the call that frame is executing.  A library
\* function receives the stack of its caller and pushes its own frame.
LibFile == "errors/errors.go"

LibFrame(fn, line) == Frame(fn, LibFile, line)

\* runtime.Caller(skip), called with the stack stk: skip 0 is the caller of Caller.
RuntimeCaller(stk, skip) == stk[skip + 1]

\* runtime.Callers(skip, pcs) with len(pcs) = n, called with the stack stk:
\* skip 0 is Callers itself, skip 1 the caller of Callers.
RuntimeCallers(stk, skip, n) ==
    LET full == <<Frame("runtime.Callers", "runtime/extern.go", 0)>> \o stk
        last == IF skip + n < Len(full) THEN skip + n ELSE Len(full)
    IN SubSeq(full, skip + 1, last)

\* A newError that never sets the internal flag.
newErrorNeverInternal(err, message, code, op, stk) ==
    LET here == <<LibFrame("errors.newError", 122)>> \o stk
        loc == RuntimeCaller(here, 2)
        pcs == RuntimeCallers(here, 2, 2)
        stackTrace == [i \in 1..Len(pcs) |->
                          Trace(i - 1, pcs[i].Function, pcs[i].File, pcs[i].Line)]
    IN [Code |-> code, Message |-> message, Operation |-> op, Err |-> err,
        Additional |-> stackTrace, Internal |-> FALSE,
        fileLine |-> <<loc.File>> \o <<":">> \o Itoa(loc.Line), pcs |-> pcs]

\* newError, called with the stack stk of its caller: capture the location and
\* two frames, build the value.
newError(err, message, code, op, stk) ==
    LET here == <<LibFrame("errors.newError", 122)>> \o stk
        loc == RuntimeCaller(here, 2)
        pcs == RuntimeCallers(here, 2, 2)
        stackTrace == [i \in 1..Len(pcs) |->
                          Trace(i - 1, pcs[i].Function, pcs[i].File, pcs[i].Line)]
    IN [Code |-> code, Message |-> message, Operation |-> op, Err |-> err,
        Additional |-> stackTrace, Internal |-> (code = INTERNAL),
        fileLine |-> <<loc.File>> \o <<":">> \o Itoa(loc.Line), pcs |-> pcs]

\* The constructors named after a code.
NewInternal(err, message, op, stk) ==
    newError(err, message, INTERNAL, op, <<LibFrame("errors.NewInternal", 65)>> \o stk)
NewConflict(err, message, op, stk) ==
    newError(err, message, CONFLICT, op, <<LibFrame("errors.NewConflict", 70)>> \o stk)
NewInvalid(err, message, op, stk) ==
    newError(err, message, INVALID, op, <<LibFrame("errors.NewInvalid", 75)>> \o stk)
NewNotFound(err, message, op, stk) ==
    newError(err, message, NOTFOUND, op, <<LibFrame("errors.NewNotFound", 80)>> \o stk)
\* A NewUnknown that passes the code of the constructor above it.
NewUnknownCopied(err, message, op, stk) ==
    newError(err, message, NOTFOUND, op, <<LibFrame("errors.NewUnknown", 85)>> \o stk)
NewUnknown(err, message, op, stk) ==
    newError(err, message, UNKNOWN, op, <<LibFrame("errors.NewUnknown", 85)>> \o stk)
NewMaximumAttempts(err, message, op, stk) ==
    newError(err, message, MAXIMUMATTEMPTS, op,
             <<LibFrame("errors.NewMaximumAttempts", 90)>> \o stk)
NewExpired(err, message, op, stk) ==
    newError(err, message, EXPIRED, op, <<LibFrame("errors.NewExpired", 95)>> \o stk)

\* NewE: the code is DefaultCode as it is at the call (dc).
NewE(err, message, op, stk, dc) ==
    newError(err, message, dc, op, <<LibFrame("errors.NewE", 100)>> \o stk)

\* ErrorF: NewE with a formatted message.
ErrorF(err, op, format, args, stk, dc) ==
    NewE(err, Sprintf(format, args), op, <<LibFrame("errors.ErrorF", 106)>> \o stk, dc)

\* A Wrap without the nil check.
WrapUnchecked(err, message, op, stk, dc) ==
    <<NewE(err, message, op, <<LibFrame("errors.Wrap", 116)>> \o stk, dc)>>

\* Wrap: <<>> is the nil *Error, <<e>> a pointer to the new value e.
Wrap(err, message, op, stk, dc) ==
    IF err.kind = "nil" THEN <<>>
    ELSE <<NewE(err, message, op, <<LibFrame("errors.Wrap", 116)>> \o stk, dc)>>

-----------------------------------------------------------------------------
\* A Code that does not look past the outermost value.
CodeOutermost(h, err) ==
    IF err.kind = "nil" THEN <<>>
    ELSE IF err.kind = "ptr" /\ h[err.addr].Code # <<>> THEN h[err.addr].Code
    ELSE INTERNAL

\* Code: the first non-empty code met from the outermost value, else INTERNAL.
RECURSIVE Code(_, _)
Code(h, err) ==
    IF err.kind = "nil" THEN <<>>
    ELSE IF err.kind = "ptr" /\ h[err.addr].Code # <<>> THEN h[err.addr].Code
    ELSE IF err.kind = "ptr" /\ h[err.addr].Err.kind # "nil" THEN Code(h, h[err.addr].Err)
    ELSE INTERNAL

\* A Message that falls back to the built-in text, not to the configured one.
RECURSIVE MessageFixedFallback(_, _, _)
MessageFixedFallback(h, err, fallback) ==
    IF err.kind = "nil" THEN <<>>
    ELSE IF err.kind = "ptr" /\ h[err.addr].Message # <<>> THEN h[err.addr].Message
    ELSE IF err.kind = "ptr" /\ h[err.addr].Err.kind # "nil"
        THEN MessageFixedFallback(h, h[err.addr].Err, fallback)
    ELSE InitialGlobalError

\* Message: the same traversal over Message, else the fallback GlobalError.
RECURSIVE Message(_, _, _)
Message(h, err, fallback) ==
    IF err.kind = "nil" THEN <<>>
    ELSE IF err.kind = "ptr" /\ h[err.addr].Message # <<>> THEN h[err.addr].Message
    ELSE IF err.kind = "ptr" /\ h[err.addr].Err.kind # "nil"
        THEN Message(h, h[err.addr].Err, fallback)
    ELSE fallback

\* (*Error).Error: the string rendering of the value e; ErrError is the
\* Error() of a non-nil value of the interface type error.
RECURSIVE Error(_, _)
RECURSIVE ErrError(_, _)
Error(h, e) ==
    LET buf == (IF e.Code # <<>> THEN <<"<">> \o e.Code \o <<">", " ">> ELSE <<>>)
            \o (IF e.fileLine # <<>> THEN e.fileLine \o <<" ", "-", " ">> ELSE <<>>)
            \o (IF e.Operation # <<>> THEN e.Operation \o <<":", " ">> ELSE <<>>)
            \o (IF e.Err.kind # "nil" THEN ErrError(h, e.Err) \o <<",", " ">> ELSE <<>>)
            \o (IF e.Message # <<>> THEN e.Message ELSE <<>>)
    IN TrimSuffixComma(TrimSpace(buf))

ErrError(h, err) == IF err.kind = "foreign" THEN err.text ELSE Error(h, h[err.addr])

\* (*Error).FileLine and (*Error).Unwrap.
FileLine(e) == e.fileLine
Unwrap(e) == e.Err

\* An HTTPStatusCode without the EXPIRED case.
HTTPStatusCodeNoExpired(e) ==
    CASE e.Code = CONFLICT -> StatusConflict
      [] e.Code = INVALID -> StatusBadRequest
      [] e.Code = NOTFOUND -> StatusNotFound
      [] e.Code = MAXIMUMATTEMPTS -> StatusTooManyRequests
      [] OTHER -> StatusInternalServerError

\* (*Error).HTTPStatusCode.
HTTPStatusCode(e) ==
    CASE e.Code = CONFLICT -> StatusConflict
      [] e.Code = INVALID -> StatusBadRequest
      [] e.Code = NOTFOUND -> StatusNotFound
      [] e.Code = EXPIRED -> StatusPaymentRequired
      [] e.Code = MAXIMUMATTEMPTS -> StatusTooManyRequests
      [] OTHER -> StatusInternalServerError

-----------------------------------------------------------------------------
\* encoding/json writes a string coerced to valid UTF-8: every invalid byte
\* becomes the replacement rune.
ToValidUTF8(s) == [i \in DOMAIN s |-> IF s[i] = "xFF" THEN "uFFFD" ELSE s[i]]

EncodeTrace(t) ==
    [Index |-> t.Index, Function |-> Head(ToValidUTF8(<<t.Function>>)),
     File |-> Head(ToValidUTF8(<<t.File>>)), Line |-> t.Line]

\* The zero wrappingError, and the JSON documents "{}" and "null".
ZeroWrapping ==
    [Code |-> <<>>, Message |-> <<>>, Operation |-> <<>>, Err |-> <<>>,
     FileLine |-> <<>>, Additional |-> <<>>, Internal |-> FALSE]

\* A byte sequence handed to a decoder: a JSON document of the wrappingError
\* shape, or bytes json.Unmarshal rejects.
Doc(w) == [valid |-> TRUE, w |-> w]
InvalidDoc == [valid |-> FALSE, w |-> ZeroWrapping]

\* json.Marshal of a wrappingError.
JsonMarshal(w) ==
    Doc([Code |-> ToValidUTF8(w.Code), Message |-> ToValidUTF8(w.Message),
         Operation |-> ToValidUTF8(w.Operation), Err |-> ToValidUTF8(w.Err),
         FileLine |-> ToValidUTF8(w.FileLine),
         Additional |-> [i \in DOMAIN w.Additional |-> EncodeTrace(w.Additional[i])],
         Internal |-> w.Internal])

\* (*Error).MarshalJSON: the cause is flattened to its text, and the origin is
\* written only beside a cause.
MarshalJSON(h, e) ==
    LET err == [Code |-> e.Code, Message |-> e.Message, Operation |-> e.Operation,
                Err |-> <<>>, FileLine |-> <<>>, Additional |-> e.Additional,
                Internal |-> e.Internal]
    IN JsonMarshal(IF e.Err.kind # "nil"
                   THEN [err EXCEPT !.Err = ErrError(h, e.Err), !.FileLine = e.fileLine]
                   ELSE err)

\* An UnmarshalJSON that restores a cause from an empty text too.
UnmarshalJSONAlwaysCause(e, data) ==
    IF ~data.valid THEN [failed |-> TRUE, e |-> e]
    ELSE LET err == data.w
         IN [failed |-> FALSE,
             e |-> [e EXCEPT !.Code = err.Code, !.Message = err.Message,
                             !.Operation = err.Operation,
                             !.Additional = err.Additional,
                             !.Internal = err.Internal, !.fileLine = err.FileLine,
                             !.Err = Foreign(err.Err)]]

\* (*Error).UnmarshalJSON into the receiver e: [failed, e].
UnmarshalJSON(e, data) ==
    IF ~data.valid THEN [failed |-> TRUE, e |-> e]
    ELSE LET err == data.w
         IN [failed |-> FALSE,
             e |-> [e EXCEPT !.Code = err.Code, !.Message = err.Message,
                             !.Operation = err.Operation,
                             !.Additional = err.Additional,
                             !.Internal = err.Internal, !.fileLine = err.FileLine,
                             !.Err = IF err.Err # <<>> THEN Foreign(err.Err) ELSE @]]

\* A value handed to Scan: untyped nil, a []byte (the nil slice when data is
\* empty, else holding a document), or a value of another type.
ScanNil == [type |-> "nil", data |-> <<>>]
ScanNilBytes == [type |-> "[]byte", data |-> <<>>]
ScanBytes(d) == [type |-> "[]byte", data |-> <<d>>]
ScanOther == [type |-> "string", data |-> <<>>]

\* A Scan that takes a value of any other type for no value.
ScanLenient(e, value) ==
    IF value.type # "[]byte" THEN [failed |-> FALSE, e |-> e]
    ELSE IF value.data = <<>> THEN [failed |-> TRUE, e |-> e]
    ELSE UnmarshalJSON(e, value.data[1])

\* (*Error).Scan into the receiver e: [failed, e].
Scan(e, value) ==
    IF value.type = "nil" THEN [failed |-> FALSE, e |-> e]
    ELSE IF value.type # "[]byte" \/ value.data = <<>> THEN [failed |-> TRUE, e |-> e]
    ELSE UnmarshalJSON(e, value.data[1])

\* (*Error).Value: json.Marshal(e) calls e.MarshalJSON.
Value(h, e) == MarshalJSON(h, e)

-----------------------------------------------------------------------------
\* A value of type any handed to ToError.
AnyPtr(p) == [type |-> "*Error", val |-> <<p>>]
AnyValue(e) == [type |-> "Error", val |-> <<e>>]
AnyError(f) == [type |-> "error", val |-> <<f>>]
AnyString(t) == [type |-> "string", val |-> <<t>>]
AnyOther == [type |-> "int", val |-> <<>>]

\* ToError: ptr is the pointer returned when no value is allocated, new holds
\* the value a returned fresh pointer points to.
ToError(h, x) ==
    CASE x.type = "*Error" -> [new |-> <<>>, ptr |-> x.val[1]]
      [] x.type = "Error" -> [new |-> <<x.val[1]>>, ptr |-> NilErr]
      [] x.type = "error" ->
            [new |-> <<[ZeroError EXCEPT
                          !.Err = Foreign(Sprintf(ErrError(h, x.val[1]), <<>>))]>>,
             ptr |-> NilErr]
      [] x.type = "string" ->
            [new |-> <<[ZeroError EXCEPT !.Err = Foreign(Sprintf(x.val[1], <<>>))]>>,
             ptr |-> NilErr]
      [] OTHER -> [new |-> <<>>, ptr |-> NilErr]

-----------------------------------------------------------------------------
\* message, operation and calling stack of a constructor call.
Inputs ==
    {[message |-> <<"m">>, operation |-> <<"op">>,
      stk |-> <<Frame("svc.Get", "svc.go", 42), Frame("main.main", "main.go", 12)>>]}

ForeignTexts == {<<"boom">>}

\* The strings handed to ToError.
Strings == {<<>>, <<"%s">>, <<"xFF">>}

Allocated == 1..Len(heap)

\* The errors a caller can hand over as a cause.
Causes == {NilErr} \cup {Foreign(t) : t \in ForeignTexts} \cup {Ptr(a) : a \in Allocated}

DefaultCodes == {INTERNAL, <<>>, <<"teapot">>}
GlobalErrors == {InitialGlobalError, <<"oops">>}

\* The record of the last call: its name, arguments and results.  data, value
\* and any hold at most one element: the bytes encoded or decoded, the value
\* handed to Scan, the value handed to ToError.
NoCall ==
    [op |-> "", err |-> NilErr, message |-> <<>>, operation |-> <<>>, stk |-> <<>>,
     res |-> NilErr, str |-> <<>>, num |-> 0, failed |-> FALSE,
     data |-> <<>>, value |-> <<>>, any |-> <<>>, fresh |-> FALSE]

Init ==
    /\ heap = <<>>
    /\ DefaultCode = INTERNAL
    /\ GlobalError = InitialGlobalError
    /\ call = NoCall

\* The application assigns the package variables.
SetDefaultCode ==
    \E c \in DefaultCodes :
        /\ DefaultCode' = c
        /\ call' = [NoCall EXCEPT !.op = "SetDefaultCode", !.str = c]
        /\ UNCHANGED <<heap, GlobalError>>

SetGlobalError ==
    \E g \in GlobalErrors :
        /\ GlobalError' = g
        /\ call' = [NoCall EXCEPT !.op = "SetGlobalError", !.str = g]
        /\ UNCHANGED <<heap, DefaultCode>>

\* A constructor call that returns a pointer to the new value e.
Construct(name, err, in, e) ==
    /\ Len(heap) < MaxHeap
    /\ heap' = Append(heap, e)
    /\ call' = [NoCall EXCEPT !.op = name, !.err = err, !.message = in.message,
                              !.operation = in.operation, !.stk = in.stk,
                              !.str = DefaultCode, !.res = Ptr(Len(heap) + 1)]
    /\ UNCHANGED <<DefaultCode, GlobalError>>

CallNewInternal ==
    \E err \in Causes, in \in Inputs :
        Construct("NewInternal", err, in, NewInternal(err, in.message, in.operation, in.stk))

CallNewConflict ==
    \E err \in Causes, in \in Inputs :
        Construct("NewConflict", err, in, NewConflict(err, in.message, in.operation, in.stk))

CallNewInvalid ==
    \E err \in Causes, in \in Inputs :
        Construct("NewInvalid", err, in, NewInvalid(err, in.message, in.operation, in.stk))

CallNewNotFound ==
    \E err \in Causes, in \in Inputs :
        Construct("NewNotFound", err, in, NewNotFound(err, in.message, in.operation, in.stk))

CallNewUnknown ==
    \E err \in Causes, in \in Inputs :
        Construct("NewUnknown", err, in, NewUnknown(err, in.message, in.operation, in.stk))

CallNewMaximumAttempts ==
    \E err \in Causes, in \in Inputs :
        Construct("NewMaximumAttempts", err, in,
                  NewMaximumAttempts(err, in.message, in.operation, in.stk))

CallNewExpired ==
    \E err \in Causes, in \in Inputs :
        Construct("NewExpired", err, in, NewExpired(err, in.message, in.operation, in.stk))

CallNewE ==
    \E err \in Causes, in \in Inputs :
        Construct("NewE", err, in, NewE(err, in.message, in.operation, in.stk, DefaultCode))

\* ErrorF: the recorded message is the formatted one.
Formats == {[format |-> <<>>, args |-> <<>>],
            [format |-> <<"id", " ", "%s">>, args |-> << <<"7">> >>]}

CallErrorF ==
    \E err \in Causes, in \in Inputs, f \in Formats :
        Construct("ErrorF", err, [in EXCEPT !.message = Sprintf(f.format, f.args)],
                  ErrorF(err, in.operation, f.format, f.args, in.stk, DefaultCode))

CallWrap ==
    \E err \in Causes, in \in Inputs :
        LET r == Wrap(err, in.message, in.operation, in.stk, DefaultCode)
        IN IF r = <<>>
           THEN /\ call' = [NoCall EXCEPT !.op = "Wrap", !.err = err,
                                          !.message = in.message,
                                          !.operation = in.operation, !.stk = in.stk,
                                          !.str = DefaultCode, !.res = NilErr]
                /\ UNCHANGED <<heap, DefaultCode, GlobalError>>
           ELSE Construct("Wrap", err, in, r[1])

CodeNamedConstructors ==
    \/ CallNewInternal \/ CallNewConflict \/ CallNewInvalid \/ CallNewNotFound
    \/ CallNewUnknown \/ CallNewMaximumAttempts \/ CallNewExpired

Constructors == CodeNamedConstructors \/ CallNewE \/ CallErrorF \/ CallWrap

\* The readers of a chain.
CallCode ==
    \E err \in Causes :
        /\ call' = [NoCall EXCEPT !.op = "Code", !.err = err, !.str = Code(heap, err)]
        /\ UNCHANGED <<heap, DefaultCode, GlobalError>>

CallMessage ==
    \E err \in Causes :
        /\ call' = [NoCall EXCEPT !.op = "Message", !.err = err,
                                  !.str = Message(heap, err, GlobalError)]
        /\ UNCHANGED <<heap, DefaultCode, GlobalError>>

CallError ==
    \E a \in Allocated :
        /\ call' = [NoCall EXCEPT !.op = "Error", !.err = Ptr(a),
                                  !.str = Error(heap, heap[a])]
        /\ UNCHANGED <<heap, DefaultCode, GlobalError>>

CallHTTPStatusCode ==
    \E a \in Allocated :
        /\ call' = [NoCall EXCEPT !.op = "HTTPStatusCode", !.err = Ptr(a),
                                  !.num = HTTPStatusCode(heap[a])]
        /\ UNCHANGED <<heap, DefaultCode, GlobalError>>

\* ToError: a returned fresh pointer is a new value of the heap.
AnyInputs ==
    {AnyPtr(p) : p \in {NilErr} \cup {Ptr(a) : a \in Allocated}}
        \cup {AnyValue(heap[a]) : a \in Allocated}
        \cup {AnyError(Foreign(t)) : t \in ForeignTexts}
        \cup {AnyString(t) : t \in Strings}
        \cup {AnyOther}

CallToError ==
    \E x \in AnyInputs :
        LET r == ToError(heap, x)
        IN /\ r.new # <<>> => Len(heap) < MaxHeap
           /\ heap' = IF r.new # <<>> THEN Append(heap, r.new[1]) ELSE heap
           /\ call' = [NoCall EXCEPT !.op = "ToError", !.any = <<x>>,
                                     !.res = IF r.new # <<>> THEN Ptr(Len(heap) + 1)
                                             ELSE r.ptr]
           /\ UNCHANGED <<DefaultCode, GlobalError>>

\* The serialization adapters.  An encoder leaves its bytes in the call record.
CallMarshalJSON ==
    \E a \in Allocated :
        /\ call' = [NoCall EXCEPT !.op = "MarshalJSON", !.err = Ptr(a),
                                  !.data = <<MarshalJSON(heap, heap[a])>>]
        /\ UNCHANGED <<heap, DefaultCode, GlobalError>>

CallValue ==
    \E a \in Allocated :
        /\ call' = [NoCall EXCEPT !.op = "Value", !.err = Ptr(a),
                                  !.data = <<Value(heap, heap[a])>>]
        /\ UNCHANGED <<heap, DefaultCode, GlobalError>>

\* The bytes a decoder may be handed: the encoding of a value, "{}", or bytes
\* that are not JSON.
Docs == {MarshalJSON(heap, heap[a]) : a \in Allocated} \cup {Doc(ZeroWrapping), InvalidDoc}

ScanValues == {ScanNil, ScanNilBytes, ScanOther} \cup {ScanBytes(d) : d \in Docs}

\* A decoder's receiver is a fresh zero instance (fresh, a new value of the
\* heap) or an existing value a; r is [failed, e], the receiver afterwards.
Decode(name, fresh, a, r, data, value) ==
    /\ fresh => Len(heap) <= MaxHeap
    /\ heap' = IF fresh THEN Append(heap, r.e) ELSE [heap EXCEPT ![a] = r.e]
    /\ call' = [NoCall EXCEPT !.op = name, !.fresh = fresh, !.failed = r.failed,
                              !.data = data, !.value = value,
                              !.res = Ptr(IF fresh THEN Len(heap) + 1 ELSE a)]
    /\ UNCHANGED <<DefaultCode, GlobalError>>

\* A document is decoded into a fresh instance (a value is immutable but for
\* the decoding that fills a zero value); an existing value is handed what
\* a decoder does not accept.
CallUnmarshalJSON ==
    \/ \E data \in Docs :
           Decode("UnmarshalJSON", TRUE, 0, UnmarshalJSON(ZeroError, data), <<data>>, <<>>)
    \/ \E a \in Allocated :
           Decode("UnmarshalJSON", FALSE, a, UnmarshalJSON(heap[a], InvalidDoc),
                  <<InvalidDoc>>, <<>>)

CallScan ==
    \/ \E value \in ScanValues :
           Decode("Scan", TRUE, 0, Scan(ZeroError, value), <<>>, <<value>>)
    \/ \E a \in Allocated :
           \E value \in {ScanNil, ScanNilBytes, ScanOther, ScanBytes(InvalidDoc)} :
               Decode("Scan", FALSE, a, Scan(heap[a], value), <<>>, <<value>>)

\* The construction API under a default code the application may reassign.
Next == Constructors \/ SetDefaultCode

Spec == Init /\ [][Next]_vars

\* Wrap over the values of the code-named constructors.
NextWrap == CodeNamedConstructors \/ CallWrap

SpecWrap == Init /\ [][NextWrap]_vars

\* Values of every code, and their HTTP status.
NextCodes == CodeNamedConstructors \/ CallNewE \/ SetDefaultCode \/ CallHTTPStatusCode

SpecCodes == Init /\ [][NextCodes]_vars

\* Chains of values with a code or without, and Code.
NextCode == CallNewNotFound \/ CallNewE \/ CallWrap \/ SetDefaultCode \/ CallCode

SpecCode == Init /\ [][NextCode]_vars

\* Chains of values with a message or without, and Message.
NextMessage == CallErrorF \/ CallWrap \/ CallToError \/ SetGlobalError \/ CallMessage

SpecMessage == Init /\ [][NextMessage]_vars

\* Values of every origin, rendered, encoded and decoded.
NextCodec ==
    \/ CallNewE \/ CallToError
    \/ CallMarshalJSON \/ CallUnmarshalJSON \/ CallValue \/ CallScan \/ CallError

SpecCodec == Init /\ [][NextCodec]_vars

-----------------------------------------------------------------------------
\* The value the last call returned, when it returned a pointer.
Returned == heap[call.res.addr]

CodeNamed ==
    {"NewInternal", "NewConflict", "NewInvalid", "NewNotFound", "NewUnknown",
     "NewMaximumAttempts", "NewExpired"}

PublicConstructors == CodeNamed \cup {"NewE", "ErrorF", "Wrap"}

\* The code a constructor's name implies.
ImpliedCode(name) ==
    CASE name = "NewInternal" -> INTERNAL
      [] name = "NewConflict" -> CONFLICT
      [] name = "NewInvalid" -> INVALID
      [] name = "NewNotFound" -> NOTFOUND
      [] name = "NewUnknown" -> UNKNOWN
      [] name = "NewMaximumAttempts" -> MAXIMUMATTEMPTS
      [] name = "NewExpired" -> EXPIRED

ClosedCodes == {CONFLICT, INTERNAL, INVALID, NOTFOUND, UNKNOWN, MAXIMUMATTEMPTS, EXPIRED}

\* C3: Wrap(nil, msg, op) returns nil; Wrap(err, msg, op) with a non-nil err
\* returns a non-nil value whose cause (Unwrap) is exactly err, with message msg
\* and operation op, and every value that existed before the call, err among
\* them, is as it was; a constructor named after a code returns a non-nil value
\* also when the cause is nil.
C3_WrapContract ==
    [][/\ call'.op = "Wrap" /\ call'.err = NilErr =>
            call'.res = NilErr /\ heap' = heap
       /\ call'.op = "Wrap" /\ call'.err # NilErr =>
            /\ call'.res = Ptr(Len(heap) + 1)
            /\ Len(heap') = Len(heap) + 1
            /\ Unwrap(heap'[Len(heap')]) = call'.err
            /\ heap'[Len(heap')].Message = call'.message
            /\ heap'[Len(heap')].Operation = call'.operation
            /\ \A a \in Allocated : heap'[a] = heap[a]
       /\ call'.op \in CodeNamed /\ call'.err = NilErr =>
            call'.res = Ptr(Len(heap) + 1) /\ Len(heap') = Len(heap) + 1]_vars

\* C3 witness: Wrap has wrapped an existing Error Value with a message and an
\* operation.
C3_Witness ==
    /\ call.op = "Wrap" /\ call.err.kind = "ptr" /\ call.res.kind = "ptr"
    /\ call.message # <<>> /\ call.operation # <<>>
    /\ call.message # call.operation

SpecStatus(code) ==
    IF code = CONFLICT THEN 409
    ELSE IF code = INVALID THEN 400
    ELSE IF code = NOTFOUND THEN 404
    ELSE IF code = EXPIRED THEN 402
    ELSE IF code = MAXIMUMATTEMPTS THEN 429
    ELSE 500

\* C5: HTTPStatusCode returns 409/400/404/402/429 for CONFLICT/INVALID/
\* NOTFOUND/EXPIRED/MAXIMUM_ATTEMPTS and 500 for every other code, and the call
\* changes no Error Value.
C5_HTTPStatus ==
    [][call'.op = "HTTPStatusCode" =>
          /\ call'.num = SpecStatus(heap[call'.err.addr].Code)
          /\ heap' = heap]_vars

\* C5 witness: the status of a value with an unset code has been asked for.
C5_Witness ==
    call.op = "HTTPStatusCode" /\ heap[call.err.addr].Code = <<>> /\ call.num = 500

\* The application function that called the public constructor, and where.
AppCaller == call.stk[1]

\* C9 (as claimed): every public constructor returns a value holding exactly 2
\* frames indexed 0 and 1, where frame 0 and the recorded origin both identify
\* the application's caller of the public constructor.
C9_Claimed ==
    call.op \in PublicConstructors /\ call.res.kind = "ptr" =>
        /\ Len(Returned.Additional) = 2
        /\ Returned.Additional[1].Index = 0 /\ Returned.Additional[2].Index = 1
        /\ Returned.Additional[1].Function = AppCaller.Function
        /\ FileLine(Returned) = <<AppCaller.File, ":">> \o Itoa(AppCaller.Line)

\* C10 (as claimed): every value a public constructor returns has a code of
\* the closed set, and its internal flag is true exactly when the code is INTERNAL.
C10_Claimed ==
    call.op \in PublicConstructors /\ call.res.kind = "ptr" =>
        /\ Returned.Code \in ClosedCodes
        /\ Returned.Internal <=> Returned.Code = INTERNAL

\* C10 (amended): a value returned by a code-named constructor has a code of
\* the closed set; a value returned by NewE, ErrorF or Wrap has DefaultCode as
\* it was at the call, whatever string that is, so its code is of the closed
\* set exactly when DefaultCode was; in every case the internal flag is true
\* exactly when the code is INTERNAL.
C10_CodeInvariant ==
    call.op \in PublicConstructors /\ call.res.kind = "ptr" =>
        /\ call.op \in CodeNamed => Returned.Code \in ClosedCodes
        /\ call.op \notin CodeNamed =>
              (Returned.Code \in ClosedCodes <=> call.str \in ClosedCodes)
        /\ Returned.Internal <=> Returned.Code = INTERNAL

\* C10 witness: Wrap has returned a value under a default code outside the
\* closed set.
C10_Witness ==
    /\ call.op = "Wrap" /\ call.res.kind = "ptr"
    /\ call.str \notin ClosedCodes /\ ~Returned.Internal

-----------------------------------------------------------------------------
\* The chain of err: err and its causes, outermost first.
RECURSIVE ChainOf(_, _)
ChainOf(h, err) ==
    IF err.kind = "nil" THEN <<>>
    ELSE IF err.kind = "foreign" THEN <<err>>
    ELSE <<err>> \o ChainOf(h, h[err.addr].Err)

HasCode(v) == v.kind = "ptr" /\ heap[v.addr].Code # <<>>
HasMessage(v) == v.kind = "ptr" /\ heap[v.addr].Message # <<>>

\* C1: Code(err) is "" when err is nil; otherwise it is the first non-empty
\* code of an Error Value met walking the chain from the outermost value, and
\* INTERNAL when the chain holds none (a foreign leaf, an Error Value with an
\* empty code and no cause).
C1_CodeOfChain ==
    call.op = "Code" =>
        LET coded == SelectSeq(ChainOf(heap, call.err), HasCode)
        IN call.str = IF call.err = NilErr THEN <<>>
                      ELSE IF coded # <<>> THEN heap[coded[1].addr].Code
                      ELSE INTERNAL

\* C1 witness: Code was asked of an Error Value with an empty code and found
\* the code of its cause.
C1_Witness ==
    /\ call.op = "Code" /\ call.err.kind = "ptr"
    /\ heap[call.err.addr].Code = <<>> /\ heap[call.err.addr].Err.kind = "ptr"
    /\ call.str \notin {<<>>, INTERNAL}

\* C2: Message(nil) is ""; for a non-nil error Message returns the first
\* non-empty message of an Error Value met walking the chain from the outermost
\* value, and GlobalError as it is at the call when the chain holds none.
C2_MessageOfChain ==
    call.op = "Message" =>
        LET worded == SelectSeq(ChainOf(heap, call.err), HasMessage)
        IN call.str = IF call.err = NilErr THEN <<>>
                      ELSE IF worded # <<>> THEN heap[worded[1].addr].Message
                      ELSE GlobalError

\* C2 witness: Message was asked of a chain of two Error Values without a
\* message, under a reassigned fallback.
C2_Witness ==
    /\ call.op = "Message" /\ call.err.kind = "ptr"
    /\ heap[call.err.addr].Err.kind = "ptr"
    /\ SelectSeq(ChainOf(heap, call.err), HasMessage) = <<>>
    /\ GlobalError # InitialGlobalError /\ call.str = GlobalError

-----------------------------------------------------------------------------
\* The values whose JSON encoding is the bytes b.
EncodedAs(b) == {a \in Allocated : MarshalJSON(heap, heap[a]) = b}

ValidUTF8(s) == \A i \in DOMAIN s : s[i] # "xFF"

\* Every string an encoder writes for e is valid UTF-8.
ValidText(e) ==
    /\ ValidUTF8(e.Code) /\ ValidUTF8(e.Message) /\ ValidUTF8(e.Operation)
    /\ \A i \in DOMAIN e.Additional :
           ValidUTF8(<<e.Additional[i].Function, e.Additional[i].File>>)
    /\ e.Err # NilErr => ValidUTF8(ErrError(heap, e.Err))

\* C6 (as claimed): decoding the JSON encoding of e into a fresh instance d
\* gives d the code, message, operation, internal flag and frames of e; d has
\* no cause when e has none, and when e has a cause d has a leaf cause with
\* the same Error() text.
C6_Claimed ==
    [][call'.op = "UnmarshalJSON" /\ call'.fresh /\ ~call'.failed =>
          \A a \in EncodedAs(call'.data[1]) :
              LET e == heap[a]
                  d == heap'[call'.res.addr]
              IN /\ d.Code = e.Code /\ d.Message = e.Message
                 /\ d.Operation = e.Operation /\ d.Internal = e.Internal
                 /\ d.Additional = e.Additional
                 /\ e.Err = NilErr => d.Err = NilErr
                 /\ e.Err # NilErr =>
                       d.Err.kind = "foreign" /\ d.Err.text = ErrError(heap, e.Err)]_vars

\* C6 (amended): for an Error Value e whose strings are valid UTF-8, decoding
\* the JSON encoding of e into a fresh instance d gives d the code, message,
\* operation, internal flag and frames of e; d has a cause exactly when e has
\* a cause whose Error() text is not empty, and that cause is a leaf error with
\* the same text.
C6_RoundTrip ==
    [][call'.op = "UnmarshalJSON" /\ call'.fresh /\ ~call'.failed =>
          \A a \in EncodedAs(call'.data[1]) :
              LET e == heap[a]
                  d == heap'[call'.res.addr]
              IN ValidText(e) =>
                    /\ d.Code = e.Code /\ d.Message = e.Message
                    /\ d.Operation = e.Operation /\ d.Internal = e.Internal
                    /\ d.Additional = e.Additional
                    /\ d.Err = IF e.Err # NilErr /\ ErrError(heap, e.Err) # <<>>
                               THEN Foreign(ErrError(heap, e.Err))
                               ELSE NilErr]_vars

\* C6 witness: the encoding of a value whose cause is an Error Value has been
\* decoded into a fresh instance, which holds a leaf cause.
C6_Witness ==
    /\ call.op = "UnmarshalJSON" /\ call.fresh /\ ~call.failed
    /\ Returned.Err.kind = "foreign"
    /\ \E a \in EncodedAs(call.data[1]) :
           a # call.res.addr /\ heap[a].Err.kind = "ptr" /\ ValidText(heap[a])

\* C7 (as claimed): Error() never returns the empty string.
C7_Claimed == call.op = "Error" => call.str # <<>>

\* C8: Scan(nil) returns no error and leaves the receiver as it was; Scan of
\* a value that is not a byte sequence returns an error and leaves the receiver
\* as it was; Scan of the bytes Value() returned for a value e, into a fresh
\* instance, fails or succeeds as, and leaves the fields that, decoding
\* the JSON encoding of e into a fresh instance does.
C8_ScanContract ==
    [][call'.op = "Scan" =>
          LET value == call'.value[1]
              before == IF call'.fresh THEN ZeroError ELSE heap[call'.res.addr]
              after == heap'[call'.res.addr]
          IN /\ value.type = "nil" => ~call'.failed /\ after = before
             /\ value.type \notin {"nil", "[]byte"} => call'.failed /\ after = before
             /\ value.type = "[]byte" /\ value.data # <<>> /\ call'.fresh =>
                   \A a \in Allocated :
                       Value(heap, heap[a]) = value.data[1] =>
                           LET r == UnmarshalJSON(ZeroError, MarshalJSON(heap, heap[a]))
                           IN call'.failed = r.failed /\ after = r.e]_vars

\* C8 witness: the bytes Value() gives for a value with a cause were scanned
\* into a fresh instance.
C8_Witness ==
    /\ call.op = "Scan" /\ call.fresh /\ ~call.failed
    /\ call.value[1].type = "[]byte" /\ call.value[1].data # <<>>
    /\ \E a \in Allocated :
           /\ a # call.res.addr /\ heap[a].Err # NilErr
           /\ Value(heap, heap[a]) = call.value[1].data[1]
    /\ Returned.Err.kind = "foreign"

====
